---- MODULE Spec2Model ----
(***************************************************************************)
(* The experiment protocol (ExperimentManager) and the stimulus timing     *)
(* fields (Stimulus) of the SSVEP stimulus presenter.                      *)
(*                                                                         *)
(* Time is counted in ticks, tps of them to a second: a run fixes tps when *)
(* the objects are constructed (2, a tick of 0.5 s, or 10, a tick of       *)
(* 0.1 s) and every duration of the code is that many ticks.  clock is the *)
(* value time.time() returns, now is the clock of whoever calls update()  *)
(* (the value passed as current_time).  A handler runs within one tick:    *)
(* every time.time() it reads returns the same value.                      *)
(*                                                                         *)
(* Python lists are 0-based and the model keeps the code's 0-based         *)
(* indices (target_idx, offline_sequence's elements); PyIndex turns one   *)
(* into a position of a TLA+ sequence.                                     *)
(***************************************************************************)
EXTENDS Integers, Sequences, FiniteSets, TLC

VARIABLES
    em,           \* the ExperimentManager object's fields
    stimuli,      \* the list of Stimulus objects the manager was given
    events,       \* event ids passed to trigger.write_event, oldest first
    event_times,  \* history: the caller's clock (now) at each of these calls
    clock,        \* time.time()
    now,          \* the caller's clock: the current_time of the last update()
    speed,        \* ticks of time.time() per tick of the caller's clock
    frame_count,  \* the caller's frame index
    pc,           \* "new" before start(), then "update" / "sample" in turn
    period,       \* ticks of the caller's clock from one update() to the next
    entered_now,  \* history: the caller's clock when em.state was entered
    visited,      \* history: the states entered since start(), oldest first
    last,         \* history: the method called last
    error,        \* the exception that escaped a call, "none" while none did
    sampled,      \* what the last draw() of each stimulus computed
    channel,      \* the bytes written to the serial port, oldest first
    _trigger,     \* SerialTrigger._trigger: TRUE for a port, FALSE for None
    faults_left   \* write_event calls in which a write may still raise

vars == <<em, stimuli, events, event_times, clock, now, speed, frame_count,
          pc, period, entered_now, visited, last, error, sampled, channel,
          _trigger, faults_left>>

----------------------------------------------------------------------------
(* Bounds of the model. *)

MaxFaults == 1    \* write_event calls of a run in which a write raises

MaxStim == 2      \* stimulus counts 1..MaxStim
MaxRounds == 2    \* TOTAL_OFFLINE_ROUNDS ranges over 0..MaxRounds
MaxPeriod == 3    \* a run calls update() every 1..MaxPeriod ticks
MaxSpeed == 2     \* time.time() runs at 0..MaxSpeed times the caller's clock
Epoch == 50       \* time.time() when the object is constructed

----------------------------------------------------------------------------
(* Program constants. *)

STATE_IDLE == 0
STATE_REST == 1
STATE_CUE == 2
STATE_FLICKER == 3
STATE_FEEDBACK == 4
STATE_WAIT == 5

\* Ticks per second of the two time resolutions.
HalfSeconds == 2
TenthSeconds == 10

Modes == {"offline", "online_discrete", "online_continuous"}

\* The refresh rate the frame loop falls back to.
RefreshRate == 60

None == 0 - 1     \* Python's None, where a number of ticks may stand
RED == <<1, 0, 0>>
GREEN == <<0, 1, 0>>

\* Ticks of the caller's clock a run may take: enough for every offline
\* session to end (a phase lasts at most its duration and one period), and
\* for two trials of an online mode.
TimeCap(m) ==
    IF m.mode = "offline"
    THEN (3 * MaxRounds + 1) * (m.t_flicker + MaxPeriod)
    ELSE 2 * (m.t_rest + m.t_flicker + m.t_feedback + 3)

----------------------------------------------------------------------------
(* Stimulus *)

\* Stimulus.__init__ followed by from_dict's flicker_freq / flicker_phase:
\* the i-th stimulus of the layout (0-based).  border_flash_duration is 0.2 s:
\* a whole number d of ticks exceeds it exactly when d > tps \div 5.
NewStimulus(i, tps) ==
    [ is_flickering |-> FALSE,
      flicker_freq |-> 8 + i,
      flicker_phase |-> i + 1,
      flicker_start_frame |-> 0,
      flicker_start_time |-> 0,
      flicker_duration |-> None,
      is_flashing_border |-> FALSE,
      border_flash_start_time |-> 0,
      border_flash_duration |-> tps \div 5,
      border_color |-> RED ]

\* A faulty set_flicker: a stimulus that flickers keeps its start frame.
set_flicker_KeepsStartFrame(s, freq, phase, duration, current_frame, t) ==
    [s EXCEPT !.flicker_freq = freq,
              !.flicker_phase = phase,
              !.flicker_duration = duration,
              !.is_flickering = TRUE,
              !.flicker_start_frame =
                    IF s.is_flickering THEN @ ELSE current_frame,
              !.flicker_start_time = t]

\* t is the time.time() the method reads.
set_flicker(s, freq, phase, duration, current_frame, t) ==
    [s EXCEPT !.flicker_freq = freq,
              !.flicker_phase = phase,
              !.flicker_duration = duration,
              !.is_flickering = TRUE,
              !.flicker_start_frame = current_frame,
              !.flicker_start_time = t]

stop_flicker(s) == [s EXCEPT !.is_flickering = FALSE]

trigger_border_flash(s, color, t) ==
    [s EXCEPT !.is_flashing_border = TRUE,
              !.border_flash_start_time = t,
              !.border_color = color]

\* Python truthiness of flicker_duration: None and 0 are both false.
Truthy(d) == d # None /\ d # 0

\* An alpha value.  kind "one" is the alpha 1.0, and kind "sine" is
\* 0.5 * (1 + sin(2 * pi * freq * (frames_elapsed / refresh_rate) + phase)),
\* kept as the arguments the code computes it from.  kind "none" is no value:
\* nothing was sampled, or the call raised.
Alpha(kind, freq, phase, frames_elapsed, refresh_rate) ==
    [ kind |-> kind, freq |-> freq, phase |-> phase,
      frames_elapsed |-> frames_elapsed, refresh_rate |-> refresh_rate ]

One == Alpha("one", 0, 0, 0, 0)
NoAlpha == Alpha("none", 0, 0, 0, 0)

\* What sampled holds of a stimulus before its first draw().
NotSampled == [alpha |-> NoAlpha, border |-> FALSE]

\* A faulty update_alpha: the phase advances with the time elapsed.
update_alpha_WallClockPhase(s, current_frame, refresh_rate, t) ==
    IF ~s.is_flickering
    THEN [stim |-> s, alpha |-> One, error |-> "none"]
    ELSE IF refresh_rate = 0
    THEN [stim |-> s, alpha |-> NoAlpha, error |-> "ZeroDivisionError"]
    ELSE IF Truthy(s.flicker_duration)
            /\ (t - s.flicker_start_time) > s.flicker_duration
    THEN [stim |-> [s EXCEPT !.is_flickering = FALSE],
          alpha |-> One, error |-> "none"]
    ELSE [stim |-> s,
          alpha |-> Alpha("sine", s.flicker_freq, s.flicker_phase,
                          t - s.flicker_start_time, refresh_rate),
          error |-> "none"]

\* update_alpha(current_frame, refresh_rate), reading t from time.time():
\* the stimulus it leaves, the alpha it returns and the exception it raises.
\* frames_elapsed / refresh_rate is computed before the duration is looked at.
update_alpha(s, current_frame, refresh_rate, t) ==
    IF ~s.is_flickering
    THEN [stim |-> s, alpha |-> One, error |-> "none"]
    ELSE IF refresh_rate = 0
    THEN [stim |-> s, alpha |-> NoAlpha, error |-> "ZeroDivisionError"]
    ELSE IF Truthy(s.flicker_duration)
            /\ (t - s.flicker_start_time) > s.flicker_duration
    THEN [stim |-> [s EXCEPT !.is_flickering = FALSE],
          alpha |-> One, error |-> "none"]
    ELSE [stim |-> s,
          alpha |-> Alpha("sine", s.flicker_freq, s.flicker_phase,
                          current_frame - s.flicker_start_frame, refresh_rate),
          error |-> "none"]

\* A faulty draw: the border expires at its duration already.
draw_BorderEndsAtDuration(s, current_frame, refresh_rate, t) ==
    LET u == update_alpha(s, current_frame, refresh_rate, t)
        expired == (t - u.stim.border_flash_start_time)
                        >= u.stim.border_flash_duration
    IN  IF u.error # "none"
        THEN [stim |-> u.stim, alpha |-> NoAlpha, border |-> FALSE,
              error |-> u.error]
        ELSE IF u.stim.is_flashing_border /\ expired
        THEN [stim |-> [u.stim EXCEPT !.is_flashing_border = FALSE],
              alpha |-> u.alpha, border |-> FALSE, error |-> "none"]
        ELSE [stim |-> u.stim, alpha |-> u.alpha,
              border |-> u.stim.is_flashing_border, error |-> "none"]

\* draw(current_frame, refresh_rate) of a stimulus whose init_gl has run:
\* update_alpha, then the border's expiry.  border is whether the border was
\* drawn.
draw(s, current_frame, refresh_rate, t) ==
    LET u == update_alpha(s, current_frame, refresh_rate, t)
        expired == (t - u.stim.border_flash_start_time)
                        > u.stim.border_flash_duration
    IN  IF u.error # "none"
        THEN [stim |-> u.stim, alpha |-> NoAlpha, border |-> FALSE,
              error |-> u.error]
        ELSE IF u.stim.is_flashing_border /\ expired
        THEN [stim |-> [u.stim EXCEPT !.is_flashing_border = FALSE],
              alpha |-> u.alpha, border |-> FALSE, error |-> "none"]
        ELSE [stim |-> u.stim, alpha |-> u.alpha,
              border |-> u.stim.is_flashing_border, error |-> "none"]

----------------------------------------------------------------------------
(* ExperimentManager.  The operators below work on a record                *)
(* w = [em, stimuli, events]: the manager, the stimuli it mutates and the  *)
(* calls it has made to the trigger.                                       *)

\* The position in a TLA+ sequence of length n of Python index i
\* (negative indices count from the end).
PyIndex(n, i) == IF i < 0 THEN n + i + 1 ELSE i + 1

\* ExperimentManager.__init__; the durations 1.0, 1.0, 2.0, 0.5 and 2.0 s in
\* ticks.  rounds is TOTAL_OFFLINE_ROUNDS, which the caller may tailor.
NewManager(mode, trigger, rounds, tps) ==
    [ mode |-> mode,
      trigger |-> trigger,
      state |-> STATE_IDLE,
      state_start_time |-> 0,
      state_start_frame |-> 0,
      target_idx |-> 0 - 1,
      t_rest |-> tps,
      t_cue |-> tps,
      t_flicker |-> 2 * tps,
      t_feedback |-> tps \div 2,
      t_continuous_tag_interval |-> 2 * tps,
      offline_sequence |-> << >>,
      offline_round |-> 0,
      TOTAL_OFFLINE_ROUNDS |-> rounds,
      last_tag_time |-> 0 ]

\* A faulty write_event: no 0 follows the event byte (follow_zero False).
write_event_NoFollowZero(w, event_id) ==
    LET called == [w EXCEPT !.events = Append(@, event_id), !.fault = 0,
                            !.faulted = w.fault # 0]
        bytes == <<0, event_id % 256>>
        written == IF w.fault = 0 THEN Len(bytes) ELSE w.fault - 1
    IN  IF w._trigger
        THEN [called EXCEPT !.channel = @ \o SubSeq(bytes, 1, written)]
        ELSE called

\* A faulty write_event: the exception of a write that raises escapes.
write_event_Raises(w, event_id) ==
    LET called == [w EXCEPT !.events = Append(@, event_id), !.fault = 0,
                            !.faulted = w.fault # 0]
        bytes == <<0, event_id % 256, 0>>
        written == IF w.fault = 0 THEN Len(bytes) ELSE w.fault - 1
    IN  IF w._trigger
        THEN [called EXCEPT !.channel = @ \o SubSeq(bytes, 1, written),
                            !.error = IF w.fault = 0 THEN @
                                      ELSE "SerialException"]
        ELSE called

\* SerialTrigger.write_event(event_id), follow_zero taking its default True:
\* nothing without a port; else the writes of 0, event_id & 0xFF and 0 in a
\* try whose except only prints.  w.fault is the write that raises in this
\* call (0: none does): the writes before it reached the port, it and the
\* writes after it did not.  The call returns nothing and raises nothing.
write_event(w, event_id) ==
    LET called == [w EXCEPT !.events = Append(@, event_id), !.fault = 0,
                            !.faulted = w.fault # 0]
        bytes == <<0, event_id % 256, 0>>
        written == IF w.fault = 0 THEN Len(bytes) ELSE w.fault - 1
    IN  IF w._trigger
        THEN [called EXCEPT !.channel = @ \o SubSeq(bytes, 1, written)]
        ELSE called

\* A faulty _stop_all_flicker: only the target stimulus is stopped.
_stop_all_flicker_TargetOnly(w) ==
    [w EXCEPT !.stimuli =
        [i \in DOMAIN @ |->
            IF i = w.em.target_idx + 1 THEN stop_flicker(@[i]) ELSE @[i]]]

_stop_all_flicker(w) ==
    [w EXCEPT !.stimuli = [i \in DOMAIN @ |-> stop_flicker(@[i])]]

\* The flicker start of _enter_state(STATE_FLICKER) and of start():
\* set_flicker(freq=s.flicker_freq, current_frame=...) on every stimulus,
\* phase and duration taking their defaults 0.0 and None.
StartAllFlicker(w, frame, t) ==
    [w EXCEPT !.stimuli =
        [i \in DOMAIN @ |->
            set_flicker(@[i], @[i].flicker_freq, 0, None, frame, t)]]

\* A faulty SendTag: the offline tag is the 0-based target index.
SendTag_ZeroBased(w) ==
    IF w.em.trigger
    THEN IF w.em.mode = "offline"
         THEN write_event(w, w.em.target_idx)
         ELSE IF w.em.mode = "online_discrete"
              THEN write_event(w, 100)
              ELSE w
    ELSE w

\* The tag _enter_state(STATE_FLICKER) sends.
SendTag(w) ==
    IF w.em.trigger
    THEN IF w.em.mode = "offline"
         THEN write_event(w, w.em.target_idx + 1)
         ELSE IF w.em.mode = "online_discrete"
              THEN write_event(w, 100)
              ELSE w
    ELSE w

\* A faulty FlashTarget: the border flash starts on every stimulus.
FlashTarget_Every(w, color, duration, t) ==
    [w EXCEPT !.stimuli =
        [i \in DOMAIN @ |->
            [trigger_border_flash(@[i], color, t)
                EXCEPT !.border_flash_duration = duration]]]

\* The border flash of _enter_state(STATE_CUE) / (STATE_FEEDBACK) on
\* stimuli[target_idx].
FlashTarget(w, color, duration, t) ==
    LET p == PyIndex(Len(w.stimuli), w.em.target_idx)
    IN  [w EXCEPT !.stimuli[p] =
            [trigger_border_flash(@, color, t)
                EXCEPT !.border_flash_duration = duration]]

\* A faulty _enter_state: entering REST leaves the flicker as it is.
_enter_state_RestKeepsFlicker(w, new_state, frame, t) ==
    LET w1 == [w EXCEPT !.em.state = new_state,
                        !.em.state_start_time = t,
                        !.em.state_start_frame = frame]
    IN  CASE new_state = STATE_CUE -> FlashTarget(w1, RED, w.em.t_cue, t)
          [] new_state = STATE_FLICKER -> SendTag(StartAllFlicker(w1, frame, t))
          [] new_state = STATE_FEEDBACK ->
                FlashTarget(_stop_all_flicker(w1), GREEN, w.em.t_feedback, t)
          [] OTHER -> w1

_enter_state(w, new_state, frame, t) ==
    LET w1 == [w EXCEPT !.em.state = new_state,
                        !.em.state_start_time = t,
                        !.em.state_start_frame = frame]
    IN  CASE new_state = STATE_REST -> _stop_all_flicker(w1)
          [] new_state = STATE_CUE -> FlashTarget(w1, RED, w.em.t_cue, t)
          [] new_state = STATE_FLICKER -> SendTag(StartAllFlicker(w1, frame, t))
          [] new_state = STATE_FEEDBACK ->
                FlashTarget(_stop_all_flicker(w1), GREEN, w.em.t_feedback, t)
          [] OTHER -> w1

\* The sequences random.choice can produce in _generate_offline_sequence.
OfflineSequences(count, n) == [1..count -> 0..(n - 1)]

\* start(); seq is what _generate_offline_sequence drew.  With no stimulus
\* to choose from, random.choice raises in the first draw.
start(w, seq, t) ==
    LET w0 == [w EXCEPT !.em.state_start_time = t]
    IN  CASE w.em.mode = "offline" ->
                IF Len(w.stimuli) = 0 /\ w.em.TOTAL_OFFLINE_ROUNDS > 0
                THEN [w0 EXCEPT !.error = "IndexError"]
                ELSE _enter_state([w0 EXCEPT !.em.offline_sequence = seq,
                                             !.em.offline_round = 0],
                                  STATE_REST, 0, t)
          [] w.em.mode = "online_discrete" ->
                _enter_state(w0, STATE_REST, 0, t)
          [] w.em.mode = "online_continuous" ->
                [StartAllFlicker(_enter_state(w0, STATE_FLICKER, 0, t), 0, t)
                    EXCEPT !.em.last_tag_time = t]
          [] OTHER -> w0

\* A faulty _update_offline: REST ends the session one round early.
_update_offline_OneRoundShort(w, elapsed, frame, t) ==
    CASE w.em.state = STATE_REST ->
            IF elapsed > w.em.t_rest
            THEN IF w.em.offline_round + 1 < Len(w.em.offline_sequence)
                 THEN _enter_state(
                        [w EXCEPT !.em.target_idx =
                            w.em.offline_sequence[w.em.offline_round + 1]],
                        STATE_CUE, frame, t)
                 ELSE _enter_state(w, STATE_IDLE, 0, t)
            ELSE w
      [] w.em.state = STATE_CUE ->
            IF elapsed > w.em.t_cue
            THEN _enter_state(w, STATE_FLICKER, frame, t)
            ELSE w
      [] w.em.state = STATE_FLICKER ->
            IF elapsed > w.em.t_flicker
            THEN _enter_state([w EXCEPT !.em.offline_round = @ + 1],
                              STATE_REST, frame, t)
            ELSE w
      [] OTHER -> w

\* A faulty _update_offline: a finished round is taken off the sequence.
_update_offline_ConsumesSequence(w, elapsed, frame, t) ==
    CASE w.em.state = STATE_REST ->
            IF elapsed > w.em.t_rest
            THEN IF 0 < Len(w.em.offline_sequence)
                 THEN _enter_state(
                        [w EXCEPT !.em.target_idx = w.em.offline_sequence[1]],
                        STATE_CUE, frame, t)
                 ELSE _enter_state(w, STATE_IDLE, 0, t)
            ELSE w
      [] w.em.state = STATE_CUE ->
            IF elapsed > w.em.t_cue
            THEN _enter_state(w, STATE_FLICKER, frame, t)
            ELSE w
      [] w.em.state = STATE_FLICKER ->
            IF elapsed > w.em.t_flicker
            THEN _enter_state([w EXCEPT !.em.offline_sequence = Tail(@)],
                              STATE_REST, frame, t)
            ELSE w
      [] OTHER -> w

\* A faulty _update_offline: every round cues the first target drawn.
_update_offline_FirstTarget(w, elapsed, frame, t) ==
    CASE w.em.state = STATE_REST ->
            IF elapsed > w.em.t_rest
            THEN IF w.em.offline_round < Len(w.em.offline_sequence)
                 THEN _enter_state(
                        [w EXCEPT !.em.target_idx = w.em.offline_sequence[1]],
                        STATE_CUE, frame, t)
                 ELSE _enter_state(w, STATE_IDLE, 0, t)
            ELSE w
      [] w.em.state = STATE_CUE ->
            IF elapsed > w.em.t_cue
            THEN _enter_state(w, STATE_FLICKER, frame, t)
            ELSE w
      [] w.em.state = STATE_FLICKER ->
            IF elapsed > w.em.t_flicker
            THEN _enter_state([w EXCEPT !.em.offline_round = @ + 1],
                              STATE_REST, frame, t)
            ELSE w
      [] OTHER -> w

\* A faulty _update_offline: a rest that has lasted longer than rest and
\* cue together goes on to the flicker at once.
_update_offline_SkipsCue(w, elapsed, frame, t) ==
    CASE w.em.state = STATE_REST ->
            IF elapsed > w.em.t_rest
            THEN IF w.em.offline_round < Len(w.em.offline_sequence)
                 THEN _enter_state(
                        [w EXCEPT !.em.target_idx =
                            w.em.offline_sequence[w.em.offline_round + 1]],
                        IF elapsed > w.em.t_rest + w.em.t_cue
                        THEN STATE_FLICKER ELSE STATE_CUE, frame, t)
                 ELSE _enter_state(w, STATE_IDLE, 0, t)
            ELSE w
      [] w.em.state = STATE_CUE ->
            IF elapsed > w.em.t_cue
            THEN _enter_state(w, STATE_FLICKER, frame, t)
            ELSE w
      [] w.em.state = STATE_FLICKER ->
            IF elapsed > w.em.t_flicker
            THEN _enter_state([w EXCEPT !.em.offline_round = @ + 1],
                              STATE_REST, frame, t)
            ELSE w
      [] OTHER -> w

\* A faulty _update_offline: the round is counted at the end of the cue
\* too.
_update_offline_CountsCue(w, elapsed, frame, t) ==
    CASE w.em.state = STATE_REST ->
            IF elapsed > w.em.t_rest
            THEN IF w.em.offline_round < Len(w.em.offline_sequence)
                 THEN _enter_state(
                        [w EXCEPT !.em.target_idx =
                            w.em.offline_sequence[w.em.offline_round + 1]],
                        STATE_CUE, frame, t)
                 ELSE _enter_state(w, STATE_IDLE, 0, t)
            ELSE w
      [] w.em.state = STATE_CUE ->
            IF elapsed > w.em.t_cue
            THEN _enter_state([w EXCEPT !.em.offline_round = @ + 1],
                              STATE_FLICKER, frame, t)
            ELSE w
      [] w.em.state = STATE_FLICKER ->
            IF elapsed > w.em.t_flicker
            THEN _enter_state([w EXCEPT !.em.offline_round = @ + 1],
                              STATE_REST, frame, t)
            ELSE w
      [] OTHER -> w

_update_offline(w, elapsed, frame, t) ==
    CASE w.em.state = STATE_REST ->
            IF elapsed > w.em.t_rest
            THEN IF w.em.offline_round < Len(w.em.offline_sequence)
                 THEN _enter_state(
                        [w EXCEPT !.em.target_idx =
                            w.em.offline_sequence[w.em.offline_round + 1]],
                        STATE_CUE, frame, t)
                 ELSE _enter_state(w, STATE_IDLE, 0, t)
            ELSE w
      [] w.em.state = STATE_CUE ->
            IF elapsed > w.em.t_cue
            THEN _enter_state(w, STATE_FLICKER, frame, t)
            ELSE w
      [] w.em.state = STATE_FLICKER ->
            IF elapsed > w.em.t_flicker
            THEN _enter_state([w EXCEPT !.em.offline_round = @ + 1],
                              STATE_REST, frame, t)
            ELSE w
      [] OTHER -> w

\* A faulty _update_online_discrete: WAIT times out into REST.
_update_online_discrete_WaitTimesOut(w, elapsed, frame, t) ==
    CASE w.em.state = STATE_REST ->
            IF elapsed > w.em.t_rest
            THEN _enter_state(w, STATE_FLICKER, frame, t)
            ELSE w
      [] w.em.state = STATE_FLICKER ->
            IF elapsed > w.em.t_flicker
            THEN _enter_state(_stop_all_flicker(w), STATE_WAIT, frame, t)
            ELSE w
      [] w.em.state = STATE_WAIT ->
            IF elapsed > w.em.t_flicker
            THEN _enter_state(w, STATE_REST, frame, t)
            ELSE w
      [] w.em.state = STATE_FEEDBACK ->
            IF elapsed > w.em.t_feedback
            THEN _enter_state(w, STATE_REST, frame, t)
            ELSE w
      [] OTHER -> w

\* A faulty _update_online_discrete: REST ends at elapsed = t_rest already.
_update_online_discrete_AtDuration(w, elapsed, frame, t) ==
    CASE w.em.state = STATE_REST ->
            IF elapsed >= w.em.t_rest
            THEN _enter_state(w, STATE_FLICKER, frame, t)
            ELSE w
      [] w.em.state = STATE_FLICKER ->
            IF elapsed > w.em.t_flicker
            THEN _enter_state(_stop_all_flicker(w), STATE_WAIT, frame, t)
            ELSE w
      [] w.em.state = STATE_FEEDBACK ->
            IF elapsed > w.em.t_feedback
            THEN _enter_state(w, STATE_REST, frame, t)
            ELSE w
      [] OTHER -> w

_update_online_discrete(w, elapsed, frame, t) ==
    CASE w.em.state = STATE_REST ->
            IF elapsed > w.em.t_rest
            THEN _enter_state(w, STATE_FLICKER, frame, t)
            ELSE w
      [] w.em.state = STATE_FLICKER ->
            IF elapsed > w.em.t_flicker
            THEN _enter_state(_stop_all_flicker(w), STATE_WAIT, frame, t)
            ELSE w
      [] w.em.state = STATE_FEEDBACK ->
            IF elapsed > w.em.t_feedback
            THEN _enter_state(w, STATE_REST, frame, t)
            ELSE w
      [] OTHER -> w

\* A faulty _update_online_continuous: last_tag_time is not set again.
_update_online_continuous_NoRearm(w, current_time) ==
    IF current_time - w.em.last_tag_time > w.em.t_continuous_tag_interval
    THEN IF w.em.trigger THEN write_event(w, 100) ELSE w
    ELSE w

_update_online_continuous(w, current_time) ==
    IF current_time - w.em.last_tag_time > w.em.t_continuous_tag_interval
    THEN [(IF w.em.trigger THEN write_event(w, 100) ELSE w)
            EXCEPT !.em.last_tag_time = current_time]
    ELSE w

\* update(current_time, frame_count); t is time.time() during the call.
\* A faulty update: the offline mode is run by the online_discrete rules.
update_OfflineAsDiscrete(w, current_time, frame, t) ==
    LET elapsed == current_time - w.em.state_start_time
    IN  CASE w.em.mode \in {"offline", "online_discrete"} ->
                _update_online_discrete(w, elapsed, frame, t)
          [] w.em.mode = "online_continuous" ->
                _update_online_continuous(w, current_time)
          [] OTHER -> w

update(w, current_time, frame, t) ==
    LET elapsed == current_time - w.em.state_start_time
    IN  CASE w.em.mode = "offline" -> _update_offline(w, elapsed, frame, t)
          [] w.em.mode = "online_discrete" ->
                _update_online_discrete(w, elapsed, frame, t)
          [] w.em.mode = "online_continuous" ->
                _update_online_continuous(w, current_time)
          [] OTHER -> w

\* A faulty trigger_feedback: the state is not tested.
trigger_feedback_AnyState(w, result_idx, t) ==
    IF w.em.mode = "online_discrete"
    THEN IF 0 <= result_idx /\ result_idx < Len(w.stimuli)
         THEN _enter_state([w EXCEPT !.em.target_idx = result_idx],
                           STATE_FEEDBACK, 0, t)
         ELSE w
    ELSE w

\* A faulty trigger_feedback: a negative result index is let through.
trigger_feedback_NoLowerBound(w, result_idx, t) ==
    IF w.em.mode = "online_discrete" /\ w.em.state = STATE_WAIT
    THEN IF result_idx < Len(w.stimuli)
         THEN _enter_state([w EXCEPT !.em.target_idx = result_idx],
                           STATE_FEEDBACK, 0, t)
         ELSE w
    ELSE w

trigger_feedback(w, result_idx, t) ==
    IF w.em.mode = "online_discrete" /\ w.em.state = STATE_WAIT
    THEN IF 0 <= result_idx /\ result_idx < Len(w.stimuli)
         THEN _enter_state([w EXCEPT !.em.target_idx = result_idx],
                           STATE_FEEDBACK, 0, t)
         ELSE w
    ELSE w

----------------------------------------------------------------------------
(* The object and its caller as a state machine. *)

World ==
    [em |-> em, stimuli |-> stimuli, events |-> events, error |-> error,
     channel |-> channel, _trigger |-> _trigger, fault |-> 0,
     faulted |-> FALSE]

\* The writes of one write_event call that can raise: none (0) when the
\* port works, else none or any one of the call's three.
Faults == IF faults_left > 0 THEN 0..Len(<<0, 0, 0>>) ELSE {0}

\* The world in which write number fault of the next write_event raises.
Faulty(fault) == [World EXCEPT !.fault = fault]

\* w is the world after a call of op, made at the caller's time at.
Becomes(w, at, op) ==
    /\ em' = w.em
    /\ stimuli' = w.stimuli
    /\ events' = w.events
    /\ event_times' = event_times
            \o [k \in 1..(Len(w.events) - Len(events)) |-> at]
    /\ entered_now' = IF w.em.state # em.state THEN at ELSE entered_now
    /\ visited' = IF w.em.state # em.state
                  THEN Append(visited, w.em.state)
                  ELSE visited
    /\ last' = op
    /\ error' = w.error
    /\ sampled' = sampled
    /\ channel' = w.channel
    /\ faults_left' = IF w.faulted THEN faults_left - 1 ELSE faults_left
    /\ UNCHANGED _trigger

\* The objects after construction, in a run of tps ticks per second.  Only
\* the offline mode reads TOTAL_OFFLINE_ROUNDS.
InitObjects(modes, tps) ==
    /\ \E n \in 1..MaxStim :
            stimuli = [i \in 1..n |-> NewStimulus(i - 1, tps)]
    /\ \E m \in modes, tr \in BOOLEAN, r \in 0..MaxRounds :
            /\ m # "offline" => r = MaxRounds
            /\ em = NewManager(m, tr, r, tps)
    /\ events = << >>
    /\ event_times = << >>
    /\ clock = Epoch
    /\ frame_count = 0
    /\ pc = "new"
    /\ period \in 1..MaxPeriod
    /\ visited = << >>
    /\ last = "__init__"
    /\ error = "none"
    /\ sampled = [i \in DOMAIN stimuli |-> NotSampled]

\* SerialTrigger.__init__, for the manager's trigger if it has one: the port
\* opens and a 0 is written to it, or an exception is caught and _trigger is
\* None.  opens is the outcomes a run may draw from, fails the numbers of
\* write_event calls that fail in it.
SerialTrigger(opens, fails) ==
    /\ _trigger \in IF em.trigger THEN opens ELSE {FALSE}
    /\ channel = IF _trigger THEN <<0>> ELSE << >>
    /\ faults_left \in IF _trigger THEN fails ELSE {0}

\* A serial port that opens and whose writes succeed.
PortWorks == SerialTrigger({TRUE}, {0})

\* A mode string that is none of Modes.
UnknownMode == "unknown"

\* The objects after a construction with any stimulus list, empty or not,
\* and any mode string: __init__ stores what it is given.
InitUnchecked ==
    /\ \E n \in 0..MaxStim :
            stimuli = [i \in 1..n |-> NewStimulus(i - 1, HalfSeconds)]
    /\ \E m \in Modes \cup {UnknownMode}, tr \in BOOLEAN, r \in 0..MaxRounds :
            /\ m # "offline" => r = MaxRounds
            /\ em = NewManager(m, tr, r, HalfSeconds)
    /\ events = << >>
    /\ event_times = << >>
    /\ clock = Epoch
    /\ frame_count = 0
    /\ pc = "new"
    /\ period \in 1..MaxPeriod
    /\ visited = << >>
    /\ last = "__init__"
    /\ error = "none"
    /\ sampled = [i \in DOMAIN stimuli |-> NotSampled]
    /\ now = clock
    /\ speed = 1
    /\ entered_now = now
    /\ PortWorks

\* The caller passes time.time() to update(), as the frame loop does.
Init ==
    /\ InitObjects(Modes, HalfSeconds)
    /\ now = clock
    /\ speed = 1
    /\ entered_now = now
    /\ PortWorks

\* The same caller at its longest period, with a trigger whose port may not
\* open, or opens and fails at any write.
InitTransport ==
    /\ InitObjects(Modes, HalfSeconds)
    /\ period = MaxPeriod
    /\ now = clock
    /\ speed = 1
    /\ entered_now = now
    /\ SerialTrigger(BOOLEAN, 0..MaxFaults)

\* The caller passes a clock of its own, which starts at 0 or at
\* time.time() and runs at its own speed.
InitSynthetic ==
    /\ InitObjects(Modes, HalfSeconds)
    /\ now \in {0, clock}
    /\ speed \in 0..MaxSpeed
    /\ entered_now = now
    /\ PortWorks

\* The online_continuous mode under such a clock, in ticks of 0.1 s.
InitContinuous ==
    /\ InitObjects({"online_continuous"}, TenthSeconds)
    /\ now \in {0, clock}
    /\ speed \in 0..MaxSpeed
    /\ entered_now = now
    /\ PortWorks

\* start(), as the host calls it once the objects stand; an exception that
\* escapes it ends the program.
Start ==
    /\ pc = "new"
    /\ LET seqs == OfflineSequences(em.TOTAL_OFFLINE_ROUNDS, Len(stimuli))
       IN  \E seq \in IF seqs = {} THEN {<< >>} ELSE seqs :
           \E fault \in Faults :
                Becomes(start(Faulty(fault), seq, clock), now, "start")
    /\ pc' = IF error' = "none" THEN "update" ELSE "crashed"
    /\ UNCHANGED <<clock, now, speed, frame_count, period>>

\* One update() call, period ticks of the caller's clock after the last one.
Update ==
    /\ pc = "update"
    /\ frame_count * period < TimeCap(em)
    /\ now' = now + period
    /\ clock' = clock + period * speed
    /\ \E fault \in Faults :
            Becomes(update(Faulty(fault), now', frame_count, clock'),
                    now', "update")
    /\ pc' = "sample"
    /\ UNCHANGED <<speed, frame_count, period>>

\* The loop "for s in stimuli: s.draw(frame_count, refresh_rate)": the
\* stimuli are drawn in order, and an exception ends the loop at the
\* stimulus that raised it.
DrawAll(refresh_rate) ==
    LET d == [i \in DOMAIN stimuli |->
                draw(stimuli[i], frame_count, refresh_rate, clock)]
        bad == {i \in DOMAIN stimuli : d[i].error # "none"}
        done(i) == \A j \in bad : i <= j
    IN  /\ stimuli' = [i \in DOMAIN stimuli |->
                        IF done(i) THEN d[i].stim ELSE stimuli[i]]
        /\ sampled' = [i \in DOMAIN stimuli |->
                        IF done(i)
                        THEN [alpha |-> d[i].alpha, border |-> d[i].border]
                        ELSE sampled[i]]
        /\ error' = IF bad = {} THEN error
                    ELSE d[CHOOSE i \in bad : \A j \in bad : i <= j].error

\* The frame's sampling: draw() on every stimulus, then the next frame.
Sample ==
    /\ pc = "sample"
    /\ DrawAll(RefreshRate)
    /\ frame_count' = frame_count + 1
    /\ pc' = "update"
    /\ last' = "draw"
    /\ UNCHANGED <<em, events, event_times, clock, now, speed, period,
                   entered_now, visited, channel, _trigger, faults_left>>

\* trigger_feedback(result_idx): before start(), or in a frame after its
\* update() and before its sampling.
TriggerFeedback(result_idx) ==
    /\ pc \in {"new", "sample"}
    /\ \E fault \in Faults :
            Becomes(trigger_feedback(Faulty(fault), result_idx, clock), now,
                    "trigger_feedback")
    /\ UNCHANGED <<clock, now, speed, frame_count, pc, period>>

\* The result indices the caller passes: one below the range, the range,
\* one above.
ResultInputs == (0 - 1)..MaxStim

Feedback == \E i \in ResultInputs : TriggerFeedback(i)

Next == Start \/ Update \/ Sample \/ Feedback

Spec == Init /\ [][Next]_vars

\* update() keeps being called: every frame's update and sampling happen.
Fairness == WF_vars(Start) /\ WF_vars(Update) /\ WF_vars(Sample)

SpecFair == Spec /\ Fairness

SpecSynthetic == InitSynthetic /\ [][Next]_vars

SpecContinuous == InitContinuous /\ [][Next]_vars

SpecUnchecked == InitUnchecked /\ [][Next]_vars

SpecTransport == InitTransport /\ [][Next]_vars

----------------------------------------------------------------------------
(* The Stimulus objects under the calls of a host without a protocol (the  *)
(* host's free mode, where no ExperimentManager is built): its keys call   *)
(* set_flicker, stop_flicker and trigger_border_flash, time passes, and    *)
(* frames are drawn.                                                       *)

MaxFrames == 2    \* frames drawn in such a run
MaxTime == 3      \* ticks of time.time() that pass in such a run

\* A duration that runs out within MaxTime.
ShortDuration == MaxTime - 2

\* Arguments of set_flicker besides the stimulus's own frequency, which is
\* what every caller passes: the stimulus's own phase or the default 0, and
\* the durations None, 0 and a positive one.
DurationInputs == {None, 0, ShortDuration}
RefreshInputs == {0, RefreshRate}

InitStimulus ==
    /\ stimuli = <<NewStimulus(0, HalfSeconds)>>
    /\ em = None
    /\ events = << >>
    /\ event_times = << >>
    /\ clock = Epoch
    /\ now = clock
    /\ speed = 1
    /\ frame_count = 0
    /\ pc = "free"
    /\ period = 1
    /\ entered_now = now
    /\ visited = << >>
    /\ last = "__init__"
    /\ error = "none"
    /\ sampled = [i \in DOMAIN stimuli |-> NotSampled]
    /\ channel = << >>
    /\ _trigger = FALSE
    /\ faults_left = 0

\* What a call on a stimulus leaves alone.
StimulusFrame ==
    UNCHANGED <<em, events, event_times, clock, now, speed, frame_count, pc,
                period, entered_now, visited, error, sampled, channel,
                _trigger, faults_left>>

SetFlicker ==
    /\ pc = "free" /\ error = "none"
    /\ \E i \in DOMAIN stimuli :
       \E freq \in {stimuli[i].flicker_freq},
          phase \in {0, stimuli[i].flicker_phase},
          duration \in DurationInputs,
          current_frame \in {0, frame_count} :
            stimuli' = [stimuli EXCEPT ![i] =
                set_flicker(@, freq, phase, duration, current_frame, clock)]
    /\ last' = "set_flicker"
    /\ StimulusFrame

StopFlicker ==
    /\ pc = "free" /\ error = "none"
    /\ \E i \in DOMAIN stimuli :
            stimuli' = [stimuli EXCEPT ![i] = stop_flicker(@)]
    /\ last' = "stop_flicker"
    /\ StimulusFrame

\* trigger_border_flash, after which a caller may assign
\* border_flash_duration as _enter_state does.
BorderFlash ==
    /\ pc = "free" /\ error = "none"
    /\ \E i \in DOMAIN stimuli :
       \E color \in {RED, GREEN},
          duration \in {stimuli[i].border_flash_duration, ShortDuration} :
            stimuli' = [stimuli EXCEPT ![i] =
                [trigger_border_flash(@, color, clock)
                    EXCEPT !.border_flash_duration = duration]]
    /\ last' = "trigger_border_flash"
    /\ StimulusFrame

\* time.time() moves on.
Tick ==
    /\ pc = "free" /\ error = "none"
    /\ clock < Epoch + MaxTime
    /\ clock' = clock + 1
    /\ now' = now + 1
    /\ UNCHANGED <<em, stimuli, events, event_times, speed, frame_count, pc,
                   period, entered_now, visited, last, error, sampled,
                   channel, _trigger, faults_left>>

\* One frame: every stimulus is drawn with the frame index and a refresh
\* rate.
Draw ==
    /\ pc = "free" /\ error = "none"
    /\ frame_count < MaxFrames
    /\ \E refresh_rate \in RefreshInputs : DrawAll(refresh_rate)
    /\ frame_count' = IF error' = "none" THEN frame_count + 1 ELSE frame_count
    /\ last' = "draw"
    /\ UNCHANGED <<em, events, event_times, clock, now, speed, pc, period,
                   entered_now, visited, channel, _trigger, faults_left>>

\* The host's render loop as written: draw is called with a keyword
\* argument active, which it does not take; the call raises before draw's
\* body runs.
Render ==
    /\ pc \in {"free", "sample"} /\ error = "none"
    /\ Len(stimuli) > 0
    /\ error' = "TypeError"
    /\ pc' = IF pc = "sample" THEN "crashed" ELSE pc
    /\ last' = "draw"
    /\ UNCHANGED <<em, stimuli, events, event_times, clock, now, speed,
                   frame_count, period, entered_now, visited, sampled,
                   channel, _trigger, faults_left>>

NextStimulus ==
    SetFlicker \/ StopFlicker \/ BorderFlash \/ Tick \/ Draw \/ Render

SpecStimulus == InitStimulus /\ [][NextStimulus]_vars

----------------------------------------------------------------------------
(* The frame loop as the host has it: start() before the first frame, and  *)
(* in every frame update(time.time(), frame_count), the feedback keys, and *)
(* the render loop with its call of draw; the exception of that call ends  *)
(* the program.                                                            *)

NextHost == Start \/ Update \/ Feedback \/ Render

SpecHost == Init /\ [][NextHost]_vars

----------------------------------------------------------------------------
(* Vocabulary of the properties. *)

Started == pc # "new"
Offline == em.mode = "offline"
Discrete == em.mode = "online_discrete"
Continuous == em.mode = "online_continuous"

AllFlickering == \A i \in DOMAIN stimuli : stimuli[i].is_flickering
NoneFlickering == \A i \in DOMAIN stimuli : ~stimuli[i].is_flickering

\* A step that is one update() call.
UpdateStep == pc = "update" /\ pc' = "sample"

\* The border-flash fields of a stimulus.
BorderFields(s) ==
    <<s.is_flashing_border, s.border_flash_start_time,
      s.border_flash_duration, s.border_color>>

\* Result indices tried on trigger_feedback in every reachable state.
ProbeIndices == (0 - 2)..(MaxStim + 3)

\* The states of an offline session of n trials, in order:
\* REST, then n times CUE FLICKER REST, then IDLE.
OfflineTrace(n) ==
    [k \in 1..(3 * n + 2) |->
        IF k = 3 * n + 2 THEN STATE_IDLE
        ELSE IF k % 3 = 1 THEN STATE_REST
        ELSE IF k % 3 = 2 THEN STATE_CUE
        ELSE STATE_FLICKER]

\* The states of the online_discrete trials, in order.
DiscreteCycle == <<STATE_REST, STATE_FLICKER, STATE_WAIT, STATE_FEEDBACK>>

----------------------------------------------------------------------------
(* C1: an offline session whose update() keeps being called reaches IDLE,  *)
(* and has then gone through REST, exactly TOTAL_OFFLINE_ROUNDS times      *)
(* CUE FLICKER REST, and IDLE (REST IDLE when there are no rounds); until  *)
(* then it has gone through a prefix of that sequence.                     *)
C1_OfflineSessionEnds ==
    /\ [](Offline /\ Started =>
            /\ Len(visited) <= 3 * em.TOTAL_OFFLINE_ROUNDS + 2
            /\ visited = SubSeq(OfflineTrace(em.TOTAL_OFFLINE_ROUNDS),
                                1, Len(visited))
            /\ (em.state = STATE_IDLE =>
                    /\ visited = OfflineTrace(em.TOTAL_OFFLINE_ROUNDS)
                    /\ em.offline_round = em.TOTAL_OFFLINE_ROUNDS))
    /\ (Offline ~> (Started /\ em.state = STATE_IDLE))

C1_Witness ==
    /\ Offline /\ Started /\ em.state = STATE_IDLE
    /\ em.TOTAL_OFFLINE_ROUNDS >= 2
    /\ visited = OfflineTrace(em.TOTAL_OFFLINE_ROUNDS)

(* C2: in offline mode with a trigger attached, the events sent so far are *)
(* offline_sequence[i] + 1 for the trials whose FLICKER has been entered,  *)
(* in order: one per trial, sent on entering FLICKER, nothing on entering  *)
(* or staying in REST, CUE, IDLE or FLICKER.                               *)
C2_OfflineTags ==
    (Offline /\ em.trigger) =>
        LET sent == em.offline_round
                    + (IF em.state = STATE_FLICKER THEN 1 ELSE 0)
        IN  /\ sent <= Len(em.offline_sequence)
            /\ events = [k \in 1..sent |-> em.offline_sequence[k] + 1]

C2_Witness ==
    /\ Offline /\ em.trigger /\ Started /\ em.state = STATE_IDLE
    /\ Len(events) = 2 /\ events[1] # events[2]

(* C3: under a caller's clock of its own, an offline phase ends at the     *)
(* first update() whose current_time is more than the phase's duration     *)
(* after the current_time at which the phase was entered, and not before.  *)
C3_PhaseTimedOnCallersClock ==
    [][(UpdateStep /\ Offline
            /\ em.state \in {STATE_REST, STATE_CUE, STATE_FLICKER}) =>
        LET d == IF em.state = STATE_FLICKER THEN em.t_flicker
                 ELSE IF em.state = STATE_CUE THEN em.t_cue
                 ELSE em.t_rest
        IN  (em'.state # em.state) <=> (now' - entered_now > d)]_vars

(* C4: outside online_discrete's WAIT, trigger_feedback with any result    *)
(* index changes nothing: not the manager's fields, not a stimulus, and    *)
(* no event is sent.                                                       *)
C4_FeedbackIgnoredOutsideWait ==
    ~(Discrete /\ em.state = STATE_WAIT) =>
        \A i \in ProbeIndices : trigger_feedback(World, i, clock) = World

C4_Witness ==
    /\ Discrete /\ em.state = STATE_FLICKER
    /\ last = "trigger_feedback"

(* C5: in online_discrete's WAIT, trigger_feedback with a result index     *)
(* below 0 or at or above the number of stimuli changes nothing.           *)
C5_InvalidResultIgnored ==
    (Discrete /\ em.state = STATE_WAIT) =>
        \A i \in ProbeIndices \ (0..(Len(stimuli) - 1)) :
            trigger_feedback(World, i, clock) = World

C5_Witness ==
    /\ Discrete /\ em.state = STATE_WAIT
    /\ last = "trigger_feedback"

(* C6: in online_discrete's WAIT, trigger_feedback(i) with i a stimulus's  *)
(* index sets target_idx to i and the state to FEEDBACK, leaves no         *)
(* stimulus flickering, and starts on stimulus i a green border flash of   *)
(* t_feedback; no other stimulus's border fields change.                   *)
C6_ValidResultGivesFeedback ==
    (Discrete /\ em.state = STATE_WAIT) =>
        \A i \in 0..(Len(stimuli) - 1) :
            LET w == trigger_feedback(World, i, clock)
            IN  /\ w.em.target_idx = i
                /\ w.em.state = STATE_FEEDBACK
                /\ \A j \in DOMAIN stimuli : ~w.stimuli[j].is_flickering
                /\ BorderFields(w.stimuli[i + 1])
                        = <<TRUE, clock, em.t_feedback, GREEN>>
                /\ \A j \in DOMAIN stimuli \ {i + 1} :
                        BorderFields(w.stimuli[j]) = BorderFields(stimuli[j])
                /\ w.events = events

C6_Witness ==
    /\ Discrete /\ em.state = STATE_FEEDBACK /\ Len(stimuli) >= 2
    /\ last = "trigger_feedback"
    /\ em.target_idx = 1
    /\ stimuli[2].is_flashing_border /\ ~stimuli[1].is_flashing_border

(* C7: online_discrete's WAIT is left only by a trigger_feedback call with *)
(* a stimulus's index, and only for FEEDBACK; an update() in WAIT changes  *)
(* nothing, however long after WAIT was entered it is called.              *)
C7_WaitLeftOnlyByFeedback ==
    /\ [][(Discrete /\ em.state = STATE_WAIT /\ em'.state # STATE_WAIT) =>
            /\ last' = "trigger_feedback"
            /\ em'.target_idx \in 0..(Len(stimuli) - 1)
            /\ em'.state = STATE_FEEDBACK]_vars
    /\ []((Discrete /\ em.state = STATE_WAIT) =>
            \A d \in 0..(3 * TimeCap(em)) :
                update(World, now + d, frame_count, clock + d) = World)

C7_Witness ==
    /\ Discrete /\ em.state = STATE_WAIT
    /\ last = "update"
    /\ now - entered_now > em.t_rest + em.t_flicker + em.t_feedback

(* C8: in online_discrete mode an update() moves REST to FLICKER when      *)
(* elapsed > t_rest, starting every stimulus's flicker and sending event   *)
(* 100 once; FLICKER to WAIT when elapsed > t_flicker, stopping every      *)
(* flicker and sending nothing; FEEDBACK to REST when elapsed >            *)
(* t_feedback, sending nothing; and otherwise changes nothing.  So the     *)
(* states come in the order REST FLICKER WAIT FEEDBACK REST ..., and the   *)
(* events sent are one 100 per FLICKER entered.                            *)
C8_DiscreteTransitions ==
    /\ [][(UpdateStep /\ Discrete) =>
            LET elapsed == now' - em.state_start_time
                same == em' = em /\ events' = events /\ stimuli' = stimuli
                tag == IF em.trigger THEN Append(events, 100) ELSE events
            IN  CASE em.state = STATE_REST ->
                        IF elapsed > em.t_rest
                        THEN /\ em'.state = STATE_FLICKER
                             /\ \A i \in DOMAIN stimuli :
                                    stimuli'[i].is_flickering
                             /\ events' = tag
                        ELSE same
                  [] em.state = STATE_FLICKER ->
                        IF elapsed > em.t_flicker
                        THEN /\ em'.state = STATE_WAIT
                             /\ \A i \in DOMAIN stimuli :
                                    ~stimuli'[i].is_flickering
                             /\ events' = events
                        ELSE same
                  [] em.state = STATE_FEEDBACK ->
                        IF elapsed > em.t_feedback
                        THEN em'.state = STATE_REST /\ events' = events
                        ELSE same
                  [] OTHER -> same]_vars
    /\ []((Discrete /\ Started) =>
            /\ \A k \in 1..Len(visited) :
                    visited[k] = DiscreteCycle[((k - 1) % 4) + 1]
            /\ em.trigger =>
                    events = [k \in 1..Cardinality(
                                {j \in 1..Len(visited) :
                                    visited[j] = STATE_FLICKER}) |-> 100])

C8_Witness ==
    /\ Discrete /\ em.trigger /\ em.state = STATE_FLICKER
    /\ Len(events) = 2
    /\ visited = DiscreteCycle \o <<STATE_REST, STATE_FLICKER>>

(* C9: in online_continuous mode with update() called every 0.1 s of the   *)
(* caller's clock (the interval being 2.0 s), no event is sent before      *)
(* 2.0 s after start() and every complete 2.0 s window after that holds    *)
(* exactly one event.                                                      *)
C9_OneTagPerWindow ==
    (Continuous /\ Started /\ em.trigger /\ period = 1) =>
        LET I == em.t_continuous_tag_interval
            since == now - entered_now
        IN  /\ \A k \in 1..Len(event_times) :
                    event_times[k] - entered_now >= I
            /\ \A j \in 1..((since \div I) - 1) :
                    Cardinality({k \in 1..Len(event_times) :
                        /\ event_times[k] >= entered_now + j * I
                        /\ event_times[k] < entered_now + (j + 1) * I}) = 1

(* C10: in online_continuous mode, once started the state is FLICKER and   *)
(* every stimulus flickers; an update() sends 100 and sets last_tag_time   *)
(* to current_time when current_time - last_tag_time exceeds the interval, *)
(* and changes nothing else.                                               *)
C10_ContinuousOnlyTags ==
    /\ []((Continuous /\ Started) =>
            em.state = STATE_FLICKER /\ AllFlickering)
    /\ [][(UpdateStep /\ Continuous) =>
            IF now' - em.last_tag_time > em.t_continuous_tag_interval
            THEN /\ em' = [em EXCEPT !.last_tag_time = now']
                 /\ events' = IF em.trigger
                              THEN Append(events, 100) ELSE events
                 /\ stimuli' = stimuli
            ELSE em' = em /\ events' = events /\ stimuli' = stimuli]_vars

C10_Witness ==
    /\ Continuous /\ em.trigger /\ last = "update"
    /\ Len(events) >= 2
    /\ em.last_tag_time = now

(* C11: in offline mode an update() leaves REST for CUE exactly when more   *)
(* than t_rest has passed and a round remains; it sets target_idx to        *)
(* offline_sequence[offline_round], starts a red border flash of duration   *)
(* t_cue on that stimulus and changes nothing else of any stimulus, and     *)
(* sends no event.  No stimulus flickers in CUE.                            *)
C11_RestToCue ==
    /\ [][(UpdateStep /\ Offline /\ em.state = STATE_REST) =>
            LET more == em.offline_round < Len(em.offline_sequence)
                due == now' - em.state_start_time > em.t_rest
                target == em.offline_sequence[em.offline_round + 1]
            IN  /\ (em'.state = STATE_CUE) <=> (due /\ more)
                /\ (em'.state = STATE_CUE) =>
                    /\ em'.target_idx = target
                    /\ em'.offline_round = em.offline_round
                    /\ em'.offline_sequence = em.offline_sequence
                    /\ stimuli' = [stimuli EXCEPT ![target + 1] =
                            [@ EXCEPT !.is_flashing_border = TRUE,
                                      !.border_flash_start_time = clock',
                                      !.border_flash_duration = em.t_cue,
                                      !.border_color = RED]]
                    /\ events' = events]_vars
    /\ []((Offline /\ em.state = STATE_CUE) => NoneFlickering)

C11_Witness ==
    /\ Offline /\ em.state = STATE_CUE /\ last = "update"
    /\ em.offline_round = 1
    /\ em.target_idx = 1
    /\ em.offline_sequence[1] = 0
    /\ stimuli[2].is_flashing_border
    /\ stimuli[2].border_color = RED

(* C12: start() in offline mode leaves an offline_sequence of               *)
(* TOTAL_OFFLINE_ROUNDS elements, each the index of a stimulus, with        *)
(* offline_round 0 and the state REST; no later call changes the sequence.  *)
C12_OfflineSequence ==
    /\ [][(pc = "new" /\ pc' # "new" /\ Offline) =>
            /\ Len(em'.offline_sequence) = em.TOTAL_OFFLINE_ROUNDS
            /\ \A k \in DOMAIN em'.offline_sequence :
                    em'.offline_sequence[k] \in 0..(Len(stimuli) - 1)
            /\ em'.offline_round = 0
            /\ em'.state = STATE_REST]_vars
    /\ [][(Started /\ Offline) =>
            em'.offline_sequence = em.offline_sequence]_vars
    /\ []((Started /\ Offline) =>
            /\ Len(em.offline_sequence) = em.TOTAL_OFFLINE_ROUNDS
            /\ \A k \in DOMAIN em.offline_sequence :
                    em.offline_sequence[k] \in 0..(Len(stimuli) - 1))

C12_Witness ==
    /\ Offline /\ Started
    /\ Len(stimuli) = 2
    /\ em.offline_sequence = <<1, 0>>
    /\ em.offline_round = 1
    /\ em.state = STATE_FLICKER

\* The world with the stimuli's is_flickering flags set to flags.
WithFlicker(flags) ==
    [World EXCEPT !.stimuli =
        [i \in DOMAIN @ |-> [@[i] EXCEPT !.is_flickering = flags[i]]]]

(* C13: whenever the state changes to REST or to FEEDBACK no stimulus       *)
(* flickers afterwards; and whatever the stimuli's flicker flags are,       *)
(* _enter_state(REST) and _enter_state(FEEDBACK) leave none flickering,     *)
(* the latter with the green border flash started on the target.            *)
C13_RestAndFeedbackStopFlicker ==
    /\ [][(em'.state # em.state
                /\ em'.state \in {STATE_REST, STATE_FEEDBACK}) =>
            \A i \in DOMAIN stimuli' : ~stimuli'[i].is_flickering]_vars
    /\ [](\A flags \in [DOMAIN stimuli -> BOOLEAN] :
            LET rest == _enter_state(WithFlicker(flags), STATE_REST,
                                     frame_count, clock)
            IN  /\ rest.em.state = STATE_REST
                /\ \A i \in DOMAIN stimuli : ~rest.stimuli[i].is_flickering
                /\ \A target \in 0..(Len(stimuli) - 1) :
                    LET fb == _enter_state(
                                [WithFlicker(flags)
                                    EXCEPT !.em.target_idx = target],
                                STATE_FEEDBACK, 0, clock)
                    IN  /\ fb.em.state = STATE_FEEDBACK
                        /\ \A i \in DOMAIN stimuli :
                                ~fb.stimuli[i].is_flickering
                        /\ fb.stimuli[target + 1].is_flashing_border
                        /\ fb.stimuli[target + 1].border_color = GREEN)

C13_Witness ==
    /\ Offline /\ em.state = STATE_REST /\ last = "update"
    /\ Len(visited) >= 2
    /\ visited[Len(visited) - 1] = STATE_FLICKER
    /\ Len(stimuli) = MaxStim
    /\ NoneFlickering
    /\ \A i \in DOMAIN stimuli : stimuli[i].flicker_start_time > Epoch

(* C14: a protocol object with no stimuli does not exist past its           *)
(* construction: start() is never reached with an empty stimulus list, in   *)
(* any mode.                                                                *)
C14_ZeroStimuliRejected ==
    (Len(stimuli) = 0) => (~Started /\ em.state = STATE_IDLE)

(* C15: a protocol object whose mode is none of the three modes does not    *)
(* exist past its construction: it is never started, and so never sits in   *)
(* IDLE with update() doing nothing.                                        *)
C15_UnknownModeRejected ==
    (em.mode \notin Modes) => ~(Started /\ last = "update")

----------------------------------------------------------------------------
(* The stimulus's timing under SpecStimulus. *)

\* A step in which every stimulus was drawn and no draw raised.
DrawStep == last' = "draw" /\ frame_count' = frame_count + 1

\* Values of time.time() a call is tried at: long before, at and after the
\* run.
TimeProbes == {0, Epoch, clock, Epoch + MaxTime + 1}

(* C16: a draw of a stimulus that flickers with flicker_duration None       *)
(* returns the alpha 0.5 * (1 + sin(2 pi f n / refresh_rate + phase)) with  *)
(* n = current_frame - flicker_start_frame and leaves the stimulus as it    *)
(* is; update_alpha returns the same for the same frame at any two values   *)
(* of time.time().                                                          *)
C16_AlphaFromFramesOnly ==
    /\ [][DrawStep =>
            \A i \in DOMAIN stimuli :
                (stimuli[i].is_flickering
                    /\ stimuli[i].flicker_duration = None) =>
                    /\ sampled'[i].alpha.refresh_rate > 0
                    /\ sampled'[i].alpha =
                            Alpha("sine", stimuli[i].flicker_freq,
                                  stimuli[i].flicker_phase,
                                  frame_count - stimuli[i].flicker_start_frame,
                                  sampled'[i].alpha.refresh_rate)
                    /\ [stimuli'[i] EXCEPT !.is_flashing_border = FALSE]
                         = [stimuli[i] EXCEPT !.is_flashing_border = FALSE]]_vars
    /\ [](\A i \in DOMAIN stimuli :
            (stimuli[i].is_flickering /\ stimuli[i].flicker_duration = None) =>
                \A c \in 0..MaxFrames, t1 \in TimeProbes, t2 \in TimeProbes :
                    update_alpha(stimuli[i], c, RefreshRate, t1)
                        = update_alpha(stimuli[i], c, RefreshRate, t2))

C16_Witness ==
    /\ last = "draw" /\ error = "none"
    /\ stimuli[1].is_flickering
    /\ stimuli[1].flicker_duration = None
    /\ sampled[1].alpha.kind = "sine"
    /\ sampled[1].alpha.frames_elapsed = 1
    /\ clock - stimuli[1].flicker_start_time = MaxTime

(* C17: stop_flicker clears is_flickering and nothing else, and a second    *)
(* call changes nothing; set_flicker(..., current_frame = c) leaves         *)
(* is_flickering true and flicker_start_frame = c whether or not the        *)
(* stimulus flickered before, and a sample at frame c then has              *)
(* frames_elapsed = 0.                                                      *)
C17_StopIdempotentStartResets ==
    /\ [](\A i \in DOMAIN stimuli :
            LET s == stimuli[i]
            IN  /\ stop_flicker(s) = [s EXCEPT !.is_flickering = FALSE]
                /\ stop_flicker(stop_flicker(s)) = stop_flicker(s)
                /\ \A c \in 0..MaxFrames, d \in DurationInputs :
                    LET r == set_flicker(s, s.flicker_freq, 0, d, c, clock)
                        a == update_alpha(r, c, RefreshRate, clock)
                    IN  /\ r.is_flickering
                        /\ r.flicker_start_frame = c
                        /\ a.alpha.kind = "sine"
                        /\ a.alpha.frames_elapsed = 0)
    /\ [][last' = "stop_flicker" =>
            /\ \E i \in DOMAIN stimuli :
                    stimuli' = [stimuli EXCEPT ![i].is_flickering = FALSE]
            /\ last = "stop_flicker" =>
                    \A i \in DOMAIN stimuli :
                        stimuli[i].is_flickering = stimuli'[i].is_flickering]_vars
    /\ [][last' = "set_flicker" =>
            \E i \in DOMAIN stimuli :
                /\ stimuli'[i].is_flickering
                /\ stimuli'[i].flicker_start_frame \in {0, frame_count}
                /\ update_alpha(stimuli'[i], stimuli'[i].flicker_start_frame,
                                RefreshRate, clock).alpha.frames_elapsed = 0]_vars

C17_Witness ==
    /\ last = "set_flicker"
    /\ sampled[1].alpha.kind = "sine"
    /\ sampled[1].alpha.frames_elapsed = 1
    /\ frame_count = 2
    /\ stimuli[1].is_flickering
    /\ stimuli[1].flicker_start_frame = 2

(* C18: a draw of a stimulus that does not flicker returns alpha 1.0 and    *)
(* leaves its flicker fields alone; a draw of a stimulus that flickers with *)
(* a duration d >= 0 set, more than d after flicker_start_time, clears      *)
(* is_flickering and returns alpha 1.0.                                     *)
C18_DurationEndsFlicker ==
    [][DrawStep =>
        \A i \in DOMAIN stimuli :
            LET s == stimuli[i]
            IN  /\ ~s.is_flickering =>
                    /\ sampled'[i].alpha = One
                    /\ [stimuli'[i] EXCEPT !.is_flashing_border = FALSE]
                         = [s EXCEPT !.is_flashing_border = FALSE]
                /\ (s.is_flickering /\ s.flicker_duration # None
                        /\ clock - s.flicker_start_time > s.flicker_duration) =>
                    /\ ~stimuli'[i].is_flickering
                    /\ sampled'[i].alpha = One]_vars

(* C19: a draw that finds the border flashing at most border_flash_duration *)
(* after border_flash_start_time draws the border and leaves it flashing;   *)
(* the first draw later than that clears is_flashing_border and draws no    *)
(* border; a border that is not flashing is not drawn, and only             *)
(* trigger_border_flash makes it flash again.                               *)
C19_BorderFlashExpires ==
    /\ [][DrawStep =>
            \A i \in DOMAIN stimuli :
                LET s == stimuli[i]
                    age == clock - s.border_flash_start_time
                    on == s.is_flashing_border
                            /\ age <= s.border_flash_duration
                IN  /\ sampled'[i].border = on
                    /\ stimuli'[i].is_flashing_border = on
                    /\ BorderFields(stimuli'[i])
                         = BorderFields([s EXCEPT !.is_flashing_border = on])]_vars
    /\ [][\A i \in DOMAIN stimuli :
                (~stimuli[i].is_flashing_border
                    /\ stimuli'[i].is_flashing_border) =>
                        /\ last' = "trigger_border_flash"
                        /\ stimuli'[i].border_flash_start_time = clock]_vars

C19_Witness ==
    /\ last = "draw" /\ error = "none"
    /\ ~stimuli[1].is_flashing_border
    /\ ~sampled[1].border
    /\ stimuli[1].border_flash_start_time = Epoch
    /\ stimuli[1].border_flash_duration = ShortDuration
    /\ clock = Epoch + ShortDuration + 1
    /\ frame_count = 2

(* C20: no call of the frame's sampling raises: whatever the stimulus's     *)
(* state and whatever refresh rate is passed, 0 included, every draw the    *)
(* host makes returns.                                                      *)
C20_SamplingNeverFails ==
    (last = "draw") => (error = "none")

----------------------------------------------------------------------------
(* The serial channel. *)

\* A step in which write_event was called.
Emits == Len(events') > Len(events)

\* The bytes of the event that step sends: 0, the event byte, 0.
Frame == <<0, events'[Len(events')] % 256, 0>>

(* C21, as stated: every event the protocol emits reaches the channel as   *)
(* the bytes 0, event id mod 256, 0, in that order and with nothing        *)
(* between them, at every emission of every mode.                          *)
C21_EveryEmissionFramed ==
    [][Emits => channel' = channel \o Frame]_vars

(* C21, amended: a call that sends no event writes nothing; an event sent  *)
(* through a port that is open and whose writes all succeed reaches the    *)
(* channel as the bytes 0, event id mod 256, 0, with nothing between; when *)
(* one of the three writes raises, the bytes before it are written and the *)
(* rest is not (nothing, or 0, or 0 and the event byte with no 0 after     *)
(* it); without a port nothing is written.                                 *)
C21_EmissionFramed ==
    [][/\ ~Emits => channel' = channel
       /\ Emits =>
            IF ~_trigger THEN channel' = channel
            ELSE IF faults_left' = faults_left
                 THEN channel' = channel \o Frame
                 ELSE \E written \in 0..(Len(Frame) - 1) :
                        channel' = channel \o SubSeq(Frame, 1, written)]_vars

\* Two events were sent through an open port: the writes of the first
\* stopped after its event byte, those of the second all succeeded.
C21_Witness ==
    /\ _trigger /\ Len(events) = 2
    /\ channel = <<0, 0, events[1] % 256, 0, events[2] % 256, 0>>

\* What a call leaves of the protocol: the manager's fields but the trigger
\* reference, the stimuli, and the exception that escaped.
Protocol(w) ==
    <<[f \in DOMAIN w.em \ {"trigger"} |-> w.em[f]], w.stimuli, w.error>>

\* The world with a trigger attached or not, its port open or not, and write
\* number fault of the next write_event raising.
Transport(attached, port, fault) ==
    [World EXCEPT !.em.trigger = attached, !._trigger = attached /\ port,
                  !.fault = fault]

\* The transports a call can meet: no trigger attached; a trigger whose
\* port could not be opened; a trigger with a port, where no write raises
\* or any one of the three does.
Transports ==
    {Transport(FALSE, FALSE, 0), Transport(TRUE, FALSE, 0)}
        \cup {Transport(TRUE, TRUE, fault) : fault \in 0..Len(<<0, 0, 0>>)}

(* C22: a failure of the marker transport never affects the protocol: no   *)
(* exception has escaped a call, and from every state the next update(),   *)
(* every trigger_feedback() and, before it has run, every start() leave    *)
(* the same manager fields (state, target_idx, offline_round and the       *)
(* others), the same stimulus fields and no exception whether no trigger   *)
(* is attached, its port could not be opened, it is open and every write   *)
(* succeeds, or any one of the three writes raises.                        *)
C22_TransportNeverAffectsProtocol ==
    LET t == clock + period * speed
        same(results) == Cardinality(results) = 1
    IN  /\ error = "none"
        /\ same({Protocol(update(w, now + period, frame_count, t)) :
                    w \in Transports})
        /\ \A i \in ResultInputs :
                same({Protocol(trigger_feedback(w, i, clock)) :
                        w \in Transports})
        /\ pc = "new" =>
                \A seq \in OfflineSequences(em.TOTAL_OFFLINE_ROUNDS,
                                            Len(stimuli)) :
                    same({Protocol(start(w, seq, clock)) : w \in Transports})

\* An offline session whose first tag was lost at its first write, and
\* which went on to the rest after that trial.
C22_Witness ==
    /\ Offline /\ _trigger /\ em.offline_round = 1
    /\ Len(events) = 1 /\ channel = <<0>>

----------------------------------------------------------------------------
(* The frame loop. *)

\* The step that is a frame's render loop.
RenderStep == pc = "sample" /\ last' = "draw"

\* The protocol started the flicker in the frame that is about to be
\* rendered: its update() entered FLICKER, or it is the first frame after a
\* start() that did.
FlickerStartedThisFrame ==
    /\ pc = "sample" /\ em.state = STATE_FLICKER
    /\ entered_now = now \/ (Continuous /\ frame_count = 0)

\* The protocol stopped the flicker in that frame: its update() left
\* FLICKER.
FlickerStoppedThisFrame ==
    /\ pc = "sample" /\ entered_now = now
    /\ Len(visited) >= 2 /\ visited[Len(visited) - 1] = STATE_FLICKER

(* C23: every frame of the host loop begins with its one update() call,    *)
(* no second one follows in the frame, and the frame ends with the         *)
(* sampling of every stimulus, which completes; a stimulus whose flicker   *)
(* the protocol started in the frame is sampled in it at frame offset 0,   *)
(* and one whose flicker the protocol stopped in the frame is sampled as   *)
(* not flickering (alpha 1).                                               *)
C23_UpdateBeforeSample ==
    [][/\ pc = "update" => UpdateStep /\ last' = "update"
       /\ pc = "sample" =>
            /\ last' # "update"
            /\ pc' # "sample" => RenderStep /\ pc' = "update"
       /\ RenderStep =>
            /\ error' = "none"
            /\ frame_count' = frame_count + 1
            /\ FlickerStartedThisFrame =>
                    \A i \in DOMAIN stimuli :
                        sampled'[i].alpha
                            = Alpha("sine", stimuli[i].flicker_freq,
                                    stimuli[i].flicker_phase, 0, RefreshRate)
            /\ FlickerStoppedThisFrame =>
                    \A i \in DOMAIN stimuli : sampled'[i].alpha = One]_vars

----------------------------------------------------------------------------
(* The stimuli under the protocol alone. *)

(* C24: with the protocol as the only caller of set_flicker and            *)
(* stop_flicker (which sets no flicker duration), in the offline and       *)
(* online_discrete modes every stimulus is flickering while the state is   *)
(* FLICKER and none is in any other state (IDLE, REST, CUE, WAIT,          *)
(* FEEDBACK): at all times all flicker or none does.                       *)
C24_AllOrNoneFlicker ==
    (Offline \/ Discrete) =>
        /\ AllFlickering \/ NoneFlickering
        /\ IF em.state = STATE_FLICKER THEN AllFlickering ELSE NoneFlickering

\* The flicker of the second offline trial, with several stimuli: they
\* have all been started, stopped and started again.
C24_Witness ==
    /\ Offline /\ Len(stimuli) > 1 /\ em.offline_round = 1
    /\ em.state = STATE_FLICKER /\ AllFlickering /\ last = "draw"

----------------------------------------------------------------------------
(* One update() call. *)

\* A jump of the clock between two update() calls: twice the durations of
\* all phases together.
LongJump == 2 * (em.t_rest + em.t_cue + em.t_flicker + em.t_feedback)

\* The phase that follows the manager's state in its mode's sequence; the
\* state itself where update() leaves none.
NextPhase ==
    CASE Offline /\ em.state = STATE_REST ->
            IF em.offline_round < Len(em.offline_sequence)
            THEN STATE_CUE ELSE STATE_IDLE
      [] Offline /\ em.state = STATE_CUE -> STATE_FLICKER
      [] Offline /\ em.state = STATE_FLICKER -> STATE_REST
      [] Discrete /\ em.state = STATE_REST -> STATE_FLICKER
      [] Discrete /\ em.state = STATE_FLICKER -> STATE_WAIT
      [] Discrete /\ em.state = STATE_FEEDBACK -> STATE_REST
      [] OTHER -> em.state

\* The duration of the manager's state.
PhaseDuration ==
    CASE em.state = STATE_REST -> em.t_rest
      [] em.state = STATE_CUE -> em.t_cue
      [] em.state = STATE_FLICKER -> em.t_flicker
      [] em.state = STATE_FEEDBACK -> em.t_feedback
      [] OTHER -> 0

(* C25: from every state, an update() that comes any time later, up to a   *)
(* jump of several phase durations, sends at most one event and leaves the *)
(* state as it is or moves it to the one phase that follows it in the      *)
(* mode's sequence, never further; and it moves it only when the elapsed   *)
(* time is strictly greater than the phase's duration (an elapsed time     *)
(* equal to the duration keeps the state).                                 *)
C25_OneTransitionPerUpdate ==
    Started =>
        \A d \in 0..LongJump :
            LET w == update(World, now + d, frame_count, clock + d)
                elapsed == now + d - em.state_start_time
            IN  /\ Len(w.events) <= Len(events) + 1
                /\ w.em.state \in {em.state, NextPhase}
                /\ w.em.state # em.state => elapsed > PhaseDuration

\* An offline rest before a trial: an update() after a long jump enters
\* the cue and not the flicker, and one at the rest's duration exactly
\* keeps the rest.
C25_Witness ==
    /\ Offline /\ em.state = STATE_REST /\ last = "draw"
    /\ em.offline_round < Len(em.offline_sequence)
    /\ now = em.state_start_time
    /\ update(World, now + LongJump, frame_count, clock + LongJump).em.state
            = STATE_CUE
    /\ update(World, now + em.t_rest, frame_count, clock + em.t_rest).em.state
            = STATE_REST

----------------------------------------------------------------------------
(* The flicker configuration of the layout. *)

\* The i-th stimulus (1-based) as the layout configured it.
Configured(i) == NewStimulus(i - 1, HalfSeconds)

(* C26: through every flicker start of the protocol, each stimulus keeps   *)
(* the flicker_freq and the flicker_phase loaded from the layout, and the  *)
(* alpha of every flickering sample is computed from these two values.     *)
C26_FlickerStartKeepsConfiguration ==
    \A i \in DOMAIN stimuli :
        /\ stimuli[i].flicker_freq = Configured(i).flicker_freq
        /\ stimuli[i].flicker_phase = Configured(i).flicker_phase
        /\ sampled[i].alpha.kind = "sine" =>
                /\ sampled[i].alpha.freq = Configured(i).flicker_freq
                /\ sampled[i].alpha.phase = Configured(i).flicker_phase

----------------------------------------------------------------------------
(* The indices the protocol keeps. *)

\* target_idx is the index of a stimulus.
TargetInRange(m) == 0 <= m.target_idx /\ m.target_idx < Len(stimuli)

(* C27: in CUE and in FEEDBACK, and whenever the offline tag               *)
(* target_idx + 1 is sent, 0 <= target_idx < len(stimuli): the initial -1  *)
(* indexes no stimulus and builds no tag.  In offline mode                 *)
(* 0 <= offline_round <= len(offline_sequence) in every state, and         *)
(* offline_round grows by exactly 1 in a step from FLICKER to REST and     *)
(* is left as it is by every other step.                                   *)
C27_IndicesInRange ==
    /\ [](/\ em.state \in {STATE_CUE, STATE_FEEDBACK} => TargetInRange(em)
          /\ Offline => /\ 0 <= em.offline_round
                         /\ em.offline_round <= Len(em.offline_sequence)
                         /\ \A k \in DOMAIN events :
                                1 <= events[k] /\ events[k] <= Len(stimuli))
    /\ [][Offline =>
            /\ Emits => /\ TargetInRange(em')
                         /\ events'[Len(events')] = em'.target_idx + 1
            /\ em'.offline_round =
                    IF em.state = STATE_FLICKER /\ em'.state = STATE_REST
                    THEN em.offline_round + 1
                    ELSE em.offline_round]_vars

\* The cue of the second offline trial, on the last stimulus of several,
\* after the tag of the first trial was sent.
C27_Witness ==
    /\ Offline /\ em.trigger /\ em.state = STATE_CUE
    /\ em.offline_round = 1 /\ Len(events) = 1
    /\ Len(stimuli) > 1 /\ em.target_idx = Len(stimuli) - 1

----------------------------------------------------------------------------
(* The states of each mode. *)

OfflineStates == {STATE_IDLE, STATE_REST, STATE_CUE, STATE_FLICKER}
DiscreteStates == {STATE_REST, STATE_FLICKER, STATE_WAIT, STATE_FEEDBACK}

(* C28: the offline mode is only ever in IDLE, REST, CUE and FLICKER and   *)
(* never in WAIT or FEEDBACK; the online_discrete mode, once started, is   *)
(* only ever in REST, FLICKER, WAIT and FEEDBACK and never in IDLE or CUE; *)
(* and the IDLE an offline session ends in is absorbing: an update() any   *)
(* time later and a trigger_feedback() with any index change no field of   *)
(* the manager or of a stimulus and send no event.                         *)
C28_StatesByMode ==
    /\ Offline =>
            /\ em.state \in OfflineStates
            /\ \A k \in DOMAIN visited : visited[k] \in OfflineStates
    /\ (Discrete /\ Started) =>
            /\ em.state \in DiscreteStates
            /\ \A k \in DOMAIN visited : visited[k] \in DiscreteStates
    /\ (Offline /\ Started /\ em.state = STATE_IDLE) =>
            /\ \A d \in 0..LongJump :
                    update(World, now + d, frame_count, clock + d) = World
            /\ \A i \in ProbeIndices :
                    trigger_feedback(World, i, clock) = World

\* An offline session of several trials that has ended, and to which
\* update() was called again more than one period after it reached IDLE.
C28_Witness ==
    /\ Offline /\ Started /\ em.state = STATE_IDLE
    /\ em.offline_round > 1
    /\ now > entered_now + period /\ last = "update"

====
